---- MODULE Spec2Model ----
(***************************************************************************)
(* ExpressionFactor (gtsam/nonlinear/ExpressionFactor.h) and the factor    *)
(* linearization harness and cross-check driver of                         *)
(* gtsam/base/numericalDerivative.h.                                       *)
(*                                                                         *)
(* Numbers are integers (exact arithmetic): a vector is a tuple of         *)
(* integers, a matrix is the tuple of its columns.  Every manifold is      *)
(* Euclidean: retract(x, d) = x + d and local(x, y) = y - x.               *)
(***************************************************************************)
EXTENDS Integers, Sequences, FiniteSets, TLC

\* Bounds of the model.
MaxDim == 2
MaxVal == 1
MaxStep == 2
MaxTol == 1
MaxWeight == 2

\* The Keys of the caller's assignment.
Keys == {1, 2}

VARIABLES values, factor, ret

vars == <<values, factor, ret>>

----------------------------------------------------------------------------
\* Vectors and matrices.

ZeroVec(n) == [i \in 1..n |-> 0]

VecAdd(a, b) == [i \in 1..Len(a) |-> a[i] + b[i]]

VecSub(a, b) == [i \in 1..Len(a) |-> a[i] - b[i]]

VecNeg(a) == [i \in 1..Len(a) |-> 0 - a[i]]

\* v * (1.0 / (2.0 * fd_step)); the differences the model forms are exact
\* multiples of the divisor.
VecDiv(v, d) == [i \in 1..Len(v) |-> IF v[i] >= 0 THEN v[i] \div d ELSE 0 - ((0 - v[i]) \div d)]

\* v[i] = a
SetCoord(v, i, a) == [j \in 1..Len(v) |-> IF j = i THEN a ELSE v[j]]

\* Matrix::Zero(rows, cols)
ZeroMat(rows, cols) == [c \in 1..cols |-> ZeroVec(rows)]

Abs(a) == IF a >= 0 THEN a ELSE 0 - a

RECURSIVE SumVec(_)
SumVec(v) == IF v = <<>> THEN 0 ELSE Head(v) + SumVec(Tail(v))

\* assert_equal(Vector, Vector, tol): same size and elementwise within tol
VecEqual(a, b, tol) ==
    /\ Len(a) = Len(b)
    /\ \A i \in 1..Len(a) : Abs(a[i] - b[i]) <= tol

\* assert_equal(Matrix, Matrix, tol): same shape and elementwise within tol
MatEqual(A, B, tol) ==
    /\ Len(A) = Len(B)
    /\ \A c \in 1..Len(A) : VecEqual(A[c], B[c], tol)

\* The keys of a key list in ascending order (iteration order of std::map).
RECURSIVE Ascending(_)
Ascending(S) ==
    IF S = {} THEN <<>>
    ELSE LET m == CHOOSE k \in S : \A j \in S : k <= j
         IN <<m>> \o Ascending(S \ {m})

Range(s) == {s[i] : i \in 1..Len(s)}

\* Key lists: non-empty sequences of distinct Keys.
KeyLists == {s \in UNION {[1..n -> Keys] : n \in 1..Cardinality(Keys)} :
                \A i, j \in 1..Len(s) : i # j => s[i] # s[j]}

----------------------------------------------------------------------------
\* Noise models.  w is the factor 1/sigma applied to a row by whitening; a
\* Constrained model has sigma = 0 in its first row, which whitening leaves
\* untouched.

NoModel == [type |-> "null", dim |-> 0, w |-> 0]

NoiseModels ==
    {[type |-> "Unit", dim |-> d, w |-> 1] : d \in 1..MaxDim}
    \cup {[type |-> "Isotropic", dim |-> d, w |-> MaxWeight] : d \in 1..MaxDim}
    \cup {[type |-> "Constrained", dim |-> d, w |-> MaxWeight] : d \in 1..MaxDim}

isConstrained(m) == m.type = "Constrained"

\* noiseModel::Constrained::unit(): unit sigmas on the unconstrained rows
unit(m) == [type |-> "Constrained", dim |-> m.dim, w |-> 1]

RowWeight(m, r) == IF m.type = "Constrained" /\ r = 1 THEN 1 ELSE m.w

\* WhitenSystem(A, b) on the matrix Ab: every column, row by row
WhitenSystem(m, M) == [c \in 1..Len(M) |-> [r \in 1..Len(M[c]) |-> RowWeight(m, r) * M[c][r]]]

----------------------------------------------------------------------------
\* Expressions.  An expression of output dimension Dim over the keys `keys'
\* (in the order keysAndDims reports them) with tangent dimensions `dims'.

NoExpr == [fn |-> "unbound", Dim |-> 0, keys |-> <<>>, dims |-> <<>>]

RECURSIVE KeysSum(_, _)
KeysSum(ks, x) == IF ks = <<>> THEN 0 ELSE SumVec(x[Head(ks)]) + KeysSum(Tail(ks), x)

RECURSIVE KeysProd(_, _)
KeysProd(ks, x) == IF ks = <<>> THEN 1 ELSE x[Head(ks)][1] * KeysProd(Tail(ks), x)

\* Expression::value(values)
ExprValue(expr, x) ==
    CASE expr.fn = "ident" -> x[expr.keys[1]]
      [] expr.fn = "sum" -> [r \in 1..expr.Dim |-> r * KeysSum(expr.keys, x)]
      [] expr.fn = "prod" -> [r \in 1..expr.Dim |-> r * KeysProd(expr.keys, x)]

\* The Jacobian block of the expression with respect to `key', of tangent
\* dimension `dim'.
ExprJacobian(expr, x, key, dim) ==
    LET others == SelectSeq(expr.keys, LAMBDA k : k # key)
    IN [c \in 1..dim |-> [r \in 1..expr.Dim |->
          CASE expr.fn = "ident" -> IF r = c THEN 1 ELSE 0
            [] expr.fn = "sum" -> r
            [] expr.fn = "prod" -> IF c = 1 THEN r * KeysProd(others, x) ELSE 0]]

\* Expression::keysAndDims()
keysAndDims(expr) == <<expr.keys, expr.dims>>

\* traits<T>::Local(origin, other)
Local(origin, other) == VecSub(other, origin)

----------------------------------------------------------------------------
\* Values.

\* Values::zeroVectors()
zeroVectors(x) == [k \in DOMAIN x |-> ZeroVec(Len(x[k]))]

\* dX[key] = dx
SetDelta(dX, key, dx) == [k \in DOMAIN dX |-> IF k = key THEN dx ELSE dX[k]]

\* Values::retract(VectorValues)
retract(x, dX) == [k \in DOMAIN x |-> VecAdd(x[k], dX[k])]

\* The expressions that can be evaluated at the assignment x.
Expressions(x) ==
    {[fn |-> f, Dim |-> d, keys |-> ks, dims |-> [i \in 1..Len(ks) |-> Len(x[ks[i]])]] :
        f \in {"sum", "prod"}, d \in 1..MaxDim, ks \in KeyLists}
    \cup {[fn |-> "ident", Dim |-> Len(x[k]), keys |-> <<k>>, dims |-> <<Len(x[k])>>] : k \in Keys}

----------------------------------------------------------------------------
\* ExpressionFactor.

NoFactor ==
    [state |-> "absent", class |-> "none", Dim |-> 0, noiseModel_ |-> NoModel,
     measured_ |-> <<>>, expression_ |-> NoExpr, keys_ |-> <<>>, dims_ |-> <<>>,
     ctorKeys |-> <<>>, thrown |-> "none",
     derived |-> [fn |-> "none", Dim |-> 0, order |-> "none"]]

\* initialize without the check of the noise model's dimension
initialize_NoDimensionCheck(f, expression) ==
    IF f.noiseModel_ = NoModel
    THEN [f EXCEPT !.state = "failed", !.thrown = "invalid_argument: no NoiseModel"]
    ELSE [f EXCEPT !.state = "ready",
                   !.expression_ = expression,
                   !.keys_ = keysAndDims(expression)[1],
                   !.dims_ = keysAndDims(expression)[2]]

\* ExpressionFactor::initialize(expression)
initialize(f, expression) ==
    IF f.noiseModel_ = NoModel
    THEN [f EXCEPT !.state = "failed", !.thrown = "invalid_argument: no NoiseModel"]
    ELSE IF f.noiseModel_.dim # f.Dim
    THEN [f EXCEPT !.state = "failed", !.thrown = "invalid_argument: incorrect dimension"]
    ELSE [f EXCEPT !.state = "ready",
                   !.expression_ = expression,
                   !.keys_ = keysAndDims(expression)[1],
                   !.dims_ = keysAndDims(expression)[2]]

\* unwhitenedError whose branch with derivatives takes the local
\* coordinates of the measurement at the predicted value
unwhitenedError_SwappedLocal(f, x, wantH) ==
    IF wantH
    THEN [error |-> Local(ExprValue(f.expression_, x), f.measured_),
          H |-> [i \in 1..Len(f.keys_) |->
                    ExprJacobian(f.expression_, x, f.keys_[i], f.dims_[i])]]
    ELSE [error |-> Local(f.measured_, ExprValue(f.expression_, x)),
          H |-> <<>>]

\* ExpressionFactor::unwhitenedError(x, H)
unwhitenedError(f, x, wantH) ==
    IF wantH
    THEN [error |-> Local(f.measured_, ExprValue(f.expression_, x)),
          H |-> [i \in 1..Len(f.keys_) |->
                    ExprJacobian(f.expression_, x, f.keys_[i], f.dims_[i])]]
    ELSE [error |-> Local(f.measured_, ExprValue(f.expression_, x)),
          H |-> <<>>]

\* The assignment evaluateError packs: keys_[0] bound to a1 and keys_[1]
\* to a2.
PackedValues(f, a1, a2) ==
    [k \in {f.keys_[1], f.keys_[2]} |-> IF k = f.keys_[1] THEN a1 ELSE a2]

\* evaluateError that hands the blocks out crosswise
evaluateError_CrossedBlocks(f, a1, a2, H1, H2, wantH1, wantH2) ==
    LET r == unwhitenedError(f, PackedValues(f, a1, a2), TRUE)
    IN [error |-> r.error,
        H1 |-> IF wantH1 THEN r.H[2] ELSE H1,
        H2 |-> IF wantH2 THEN r.H[1] ELSE H2]

\* ExpressionFactor2::evaluateError(a1, a2, H1, H2): H1 and H2 are the
\* caller's matrices before the call, wantH1 and wantH2 tell whether they
\* are passed; the result holds the returned error and the matrices after
\* the call.
evaluateError(f, a1, a2, H1, H2, wantH1, wantH2) ==
    LET r == unwhitenedError(f, PackedValues(f, a1, a2), TRUE)
    IN [error |-> r.error,
        H1 |-> IF wantH1 THEN r.H[1] ELSE H1,
        H2 |-> IF wantH2 THEN r.H[2] ELSE H2]

\* Arguments of dimension n for the functions of several arguments.
Arguments(n) == {[i \in 1..n |-> v + i] : v \in {0, MaxVal}}

\* A matrix of the caller that no call has written.
Unwritten == <<>>

\* The null JacobianFactor pointer.
NullFactor == [null |-> TRUE, keys |-> <<>>, A |-> <<>>, b |-> <<>>, model |-> NoModel]

RECURSIVE Concat(_)
Concat(blocks) == IF blocks = <<>> THEN <<>> ELSE Head(blocks) \o Concat(Tail(blocks))

\* First column of block i in a matrix whose blocks have the widths dims.
Offset(dims, i) == SumVec(SubSeq(dims, 1, i - 1)) + 1

\* linearize: the noise model handed to the JacobianFactor
linearizeNoiseModel(f) ==
    IF isConstrained(f.noiseModel_) THEN unit(f.noiseModel_) ELSE NoModel

\* the RHS vector without the negation
linearizeRhs_NotNegated(f, value) == Local(f.measured_, value)

\* linearize: the RHS vector b written into Ab
linearizeRhs(f, value) == VecNeg(Local(f.measured_, value))

\* whitening with the unit model handed to the JacobianFactor
linearizeWhiten_WithUnit(f, Ab) ==
    WhitenSystem(IF isConstrained(f.noiseModel_) THEN unit(f.noiseModel_) ELSE f.noiseModel_, Ab)

\* linearize: noiseModel_->WhitenSystem(Ab.matrix(), b)
linearizeWhiten(f, Ab) == WhitenSystem(f.noiseModel_, Ab)

\* linearize of an active factor: the JacobianFactor over keys_ and dims_
\* with Dim rows, filled by the expression and whitened
linearizeActive(f, x) ==
    LET value == ExprValue(f.expression_, x)
        jacobianMap == [i \in 1..Len(f.keys_) |->
                           ExprJacobian(f.expression_, x, f.keys_[i], f.dims_[i])]
        Ab == linearizeWhiten(f, Concat(jacobianMap) \o <<linearizeRhs(f, value)>>)
    IN [null |-> FALSE,
        keys |-> f.keys_,
        A |-> [i \in 1..Len(f.keys_) |->
                 SubSeq(Ab, Offset(f.dims_, i), Offset(f.dims_, i) + f.dims_[i] - 1)],
        b |-> Ab[Len(Ab)],
        model |-> linearizeNoiseModel(f)]

\* linearize without the test of active(x)
linearize_IgnoresActive(f, x, act) == [gf |-> linearizeActive(f, x), evals |-> 1]

\* ExpressionFactor::linearize(x); act is the value of active(x).  evals
\* counts the evaluations of expression_.
linearize(f, x, act) ==
    IF ~act
    THEN [gf |-> NullFactor, evals |-> 0]
    ELSE [gf |-> linearizeActive(f, x), evals |-> 1]

\* JacobianFactor(terms, b) from a std::map<Key, Matrix>: the terms are
\* taken in the iteration order of the map.
JacobianFactorOfMap(jacobians, b) ==
    LET ks == Ascending(DOMAIN jacobians)
    IN [null |-> FALSE, keys |-> ks, A |-> [i \in 1..Len(ks) |-> jacobians[ks[i]]],
        b |-> b, model |-> NoModel]

\* JacobianFactor::jacobianUnweighted()
jacobianUnweighted(jf) == [first |-> Concat(jf.A), second |-> jf.b]

----------------------------------------------------------------------------
\* The linearization harness.  st.log lists, for every perturbed evaluation
\* of unwhitenedError, the key, the column, the sign and the delta map used.

RECURSIVE ColumnLoop(_, _, _, _, _, _)
ColumnLoop(f, x, fd_step, key, col, st) ==
    LET cols == Len(st.dX[key])
    IN IF col > cols THEN st
       ELSE LET dxp == SetCoord(ZeroVec(cols), col, fd_step)
                dXp == SetDelta(st.dX, key, dxp)
                left == unwhitenedError(f, retract(x, dXp), FALSE).error
                dxm == SetCoord(dxp, col, 0 - fd_step)
                dXm == SetDelta(dXp, key, dxm)
                right == unwhitenedError(f, retract(x, dXm), FALSE).error
            IN ColumnLoop(f, x, fd_step, key, col + 1,
                 [dX |-> dXm,
                  J |-> SetCoord(st.J, col, VecDiv(VecSub(left, right), 2 * fd_step)),
                  log |-> st.log \o <<[key |-> key, col |-> col, sign |-> 1, dX |-> dXp,
                                       e |-> left],
                                      [key |-> key, col |-> col, sign |-> 0 - 1, dX |-> dXm,
                                       e |-> right]>>])

RECURSIVE KeyLoop(_, _, _, _, _, _)
KeyLoop(f, x, fd_step, rows, i, st) ==
    IF i > Len(f.keys_) THEN st
    ELSE LET key == f.keys_[i]
             cols == Len(st.dX[key])
             c == ColumnLoop(f, x, fd_step, key, 1,
                             [dX |-> st.dX, J |-> ZeroMat(rows, cols), log |-> st.log])
         IN KeyLoop(f, x, fd_step, rows, i + 1,
                    [dX |-> c.dX, jacobians |-> (key :> c.J) @@ st.jacobians, log |-> c.log])

computeNumericalDerivativeJacobianFactor(f, x, fd_step) ==
    LET e == unwhitenedError(f, x, FALSE).error
        rows == Len(e)
        st == KeyLoop(f, x, fd_step, rows, 1,
                      [dX |-> zeroVectors(x), jacobians |-> <<>>, log |-> <<>>])
    IN [jf |-> JacobianFactorOfMap(st.jacobians, VecNeg(e)), log |-> st.log]

\* What the read through a null JacobianFactor pointer can yield when the
\* process survives it.
Garbage(estJ) == {[first |-> estJ.first, second |-> ZeroVec(Len(estJ.second))]}

\* The three EXPECTs of testFactorJacobians; the number of failures recorded.
Failures(evalJ, estJ, tolerance) ==
    (IF MatEqual(evalJ.first, estJ.first, tolerance) THEN 0 ELSE 1)
    + (IF VecEqual(evalJ.second, ZeroVec(Len(evalJ.second)), tolerance) THEN 0 ELSE 1)
    + (IF VecEqual(estJ.second, ZeroVec(Len(evalJ.second)), tolerance) THEN 0 ELSE 1)

\* testFactorJacobians(result_, name_, f, values, fd_step, tolerance): the
\* set of its possible outcomes; act is the value of f.active(values).
testFactorJacobians(f, x, fd_step, tolerance, act) ==
    LET expected == computeNumericalDerivativeJacobianFactor(f, x, fd_step).jf
        gf == linearize(f, x, act).gf
        jf == gf
        estJ == jacobianUnweighted(expected)
    IN IF jf.null
       THEN {[outcome |-> "crash", expected |-> expected, jf |-> jf,
              evalJ |-> [first |-> <<>>, second |-> <<>>], failures |-> 0]}
            \cup {[outcome |-> "returned", expected |-> expected, jf |-> jf,
                   evalJ |-> g, failures |-> Failures(g, estJ, tolerance)] :
                     g \in Garbage(estJ)}
       ELSE {[outcome |-> "returned", expected |-> expected, jf |-> jf,
              evalJ |-> jacobianUnweighted(jf),
              failures |-> Failures(jacobianUnweighted(jf), estJ, tolerance)]}

\* The expression a class derived from ExpressionFactor2 builds for
\* (key1, key2): derived.order tells whether the expression reports its keys
\* in ascending order or in the order of the arguments.
expression2(derived, key1, key2, x) ==
    LET ks == IF derived.order = "ascending" THEN Ascending({key1, key2}) ELSE <<key1, key2>>
    IN [fn |-> derived.fn, Dim |-> derived.Dim, keys |-> ks,
        dims |-> [i \in 1..Len(ks) |-> Len(x[ks[i]])]]

\* The derived classes of the model have a scalar T.
DerivedClasses ==
    {[fn |-> f, Dim |-> 1, order |-> o] :
        f \in {"sum", "prod"}, o \in {"ascending", "arguments"}}

\* The measurements a factor is built with: the zero of T, or the value the
\* expression predicts at x.
Measurements(expr, x) == {ZeroVec(expr.Dim), ExprValue(expr, x)}

TypeOK ==
    /\ DOMAIN values = Keys
    /\ factor.state \in {"absent", "needinit", "ready", "failed"}

Init ==
    /\ values \in {[k \in Keys |-> [i \in 1..d[k] |-> v + k + i - 2]] :
                      d \in [Keys -> 1..MaxDim], v \in {0, MaxVal}}
    /\ factor = NoFactor
    /\ ret = [op |-> "none"]

\* ExpressionFactor(noiseModel, measurement, expression)
Construct ==
    /\ factor.state = "absent"
    /\ \E noiseModel \in NoiseModels \cup {NoModel}, expression \in Expressions(values) :
        \E measurement \in Measurements(expression, values) :
          factor' = initialize([NoFactor EXCEPT !.class = "ExpressionFactor",
                                                !.Dim = expression.Dim,
                                                !.noiseModel_ = noiseModel,
                                                !.measured_ = measurement],
                               expression)
    /\ ret' = [op |-> "construct"]
    /\ UNCHANGED values

\* ExpressionFactor2(key1, key2, noiseModel, measurement) of a derived class
Construct2 ==
    /\ factor.state = "absent"
    /\ \E derived \in DerivedClasses, key1, key2 \in Keys, noiseModel \in NoiseModels \cup {NoModel} :
        /\ key1 # key2
        /\ \E measurement \in Measurements(expression2(derived, key1, key2, values), values) :
             factor' = [NoFactor EXCEPT !.state = "needinit",
                                        !.class = "ExpressionFactor2",
                                        !.derived = derived,
                                        !.Dim = derived.Dim,
                                        !.noiseModel_ = noiseModel,
                                        !.measured_ = measurement,
                                        !.keys_ = <<key1, key2>>,
                                        !.ctorKeys = <<key1, key2>>]
    /\ ret' = [op |-> "construct2"]
    /\ UNCHANGED values

\* the derived constructor calls initialize(expression(key1, key2))
Initialize2 ==
    /\ factor.state = "needinit"
    /\ factor' = initialize(factor,
                    expression2(factor.derived, factor.keys_[1], factor.keys_[2], values))
    /\ ret' = [op |-> "initialize"]
    /\ UNCHANGED values

\* ExpressionFactor::load(ar) of an archive written by save() of the factor
Load ==
    /\ factor.state = "ready"
    /\ ret.op = "idle"
    /\ IF factor.class = "ExpressionFactor2"
       THEN /\ factor' = initialize(factor,
                            expression2(factor.derived, factor.keys_[1], factor.keys_[2], values))
            /\ ret' = [op |-> "load", thrown |-> "none"]
       ELSE /\ factor' = factor
            /\ ret' = [op |-> "load", thrown |-> "runtime_error: expression not provided"]
    /\ UNCHANGED values

\* ExpressionFactor::clone()
Clone ==
    /\ factor.state = "ready"
    /\ ret.op = "idle"
    /\ ret' = [op |-> "clone", result |-> factor]
    /\ UNCHANGED <<values, factor>>

\* a callee that leaves the last coordinate of the last key perturbed
constValues_LeftPerturbed(x) ==
    LET key == Ascending(DOMAIN x)[Cardinality(DOMAIN x)]
    IN [k \in DOMAIN x |->
           IF k = key THEN SetCoord(x[k], Len(x[k]), x[k][Len(x[k])] - 1) ELSE x[k]]

\* The caller's assignment after a call that received it as const Values&
\* (unwhitenedError, linearize, the harness, the driver): the callee reads
\* it, and a perturbed assignment is a new Values returned by retract.
constValues(x) == x

\* a caller evaluates unwhitenedError(values, H)
CallUnwhitenedError ==
    /\ factor.state = "ready"
    /\ ret.op = "idle"
    /\ \E wantH \in BOOLEAN :
          ret' = [op |-> "unwhitenedError", wantH |-> wantH,
                  result |-> unwhitenedError(factor, values, wantH)]
    /\ values' = constValues(values)
    /\ UNCHANGED factor

\* a caller linearizes the factor at values
CallLinearize ==
    /\ factor.state = "ready"
    /\ ret.op = "idle"
    /\ \E act \in BOOLEAN :
          ret' = [op |-> "linearize", active |-> act,
                  result |-> linearize(factor, values, act)]
    /\ values' = constValues(values)
    /\ UNCHANGED factor

\* a caller runs the harness on the factor at values
CallHarness ==
    /\ factor.state = "ready"
    /\ ret.op = "idle"
    /\ \E fd_step \in {1, MaxStep} :
          ret' = [op |-> "harness", fd_step |-> fd_step,
                  result |-> computeNumericalDerivativeJacobianFactor(factor, values, fd_step)]
    /\ values' = constValues(values)
    /\ UNCHANGED factor

\* EXPECT_CORRECT_FACTOR_JACOBIANS(factor, values, fd_step, tolerance)
CallTest ==
    /\ factor.state = "ready"
    /\ ret.op = "idle"
    /\ \E fd_step \in {1, MaxStep}, tolerance \in {0, MaxTol}, act \in BOOLEAN :
        \E r \in testFactorJacobians(factor, values, fd_step, tolerance, act) :
          ret' = [op |-> "test", fd_step |-> fd_step, tolerance |-> tolerance,
                  active |-> act, result |-> r]
    /\ values' = constValues(values)
    /\ UNCHANGED factor

\* a caller evaluates evaluateError(a1, a2, H1, H2) of an ExpressionFactor2
CallEvaluateError ==
    /\ factor.state = "ready"
    /\ factor.class = "ExpressionFactor2"
    /\ ret.op = "idle"
    /\ \E v \in {0, MaxVal}, wantH1, wantH2 \in BOOLEAN :
       \E a1 \in {[i \in 1..factor.dims_[1] |-> v + i]},
          a2 \in {[i \in 1..factor.dims_[2] |-> v + i + 1]} :
          ret' = [op |-> "evaluateError", a1 |-> a1, a2 |-> a2,
                  wantH1 |-> wantH1, wantH2 |-> wantH2,
                  result |-> evaluateError(factor, a1, a2, Unwritten, Unwritten,
                                           wantH1, wantH2)]
    /\ UNCHANGED <<values, factor>>

\* the caller drops the result of the last call
Return ==
    /\ ret.op \notin {"none", "idle"}
    /\ factor.state \in {"ready", "failed"}
    /\ ret' = [op |-> "idle"]
    /\ UNCHANGED <<values, factor>>

Next ==
    \/ Construct
    \/ Construct2
    \/ Initialize2
    \/ Load
    \/ Clone
    \/ CallUnwhitenedError
    \/ CallLinearize
    \/ CallHarness
    \/ CallTest
    \/ CallEvaluateError
    \/ Return

Spec == Init /\ [][Next]_vars
----------------------------------------------------------------------------
\* The harness.

\* The delta map that is s in coordinate col of key and zero elsewhere.
SingleCoordinate(x, key, col, s) ==
    [k \in DOMAIN x |-> [i \in 1..Len(x[k]) |-> IF k = key /\ i = col THEN s ELSE 0]]

\* The central difference of the unwhitened error of f in coordinate col of
\* key, every other coordinate unperturbed.
CentralDifference(f, x, key, col, fd_step) ==
    VecDiv(VecSub(unwhitenedError(f, retract(x, SingleCoordinate(x, key, col, fd_step)), FALSE).error,
                  unwhitenedError(f, retract(x, SingleCoordinate(x, key, col, 0 - fd_step)), FALSE).error),
           2 * fd_step)

\* C1: every perturbed evaluation of the harness uses a delta map that holds
\* +fd_step (resp. -fd_step) in the single coordinate being differenced and
\* zero in every other coordinate of every key, earlier keys included.
C1_DeltaHoldsSingleCoordinate ==
    ret.op = "harness" =>
        \A n \in 1..Len(ret.result.log) :
            LET ev == ret.result.log[n]
            IN ev.dX = SingleCoordinate(values, ev.key, ev.col, ev.sign * ret.fd_step)

\* C2: when the factor is active and the blocks of its linearize agree with
\* the blocks of the harness within tolerance, testFactorJacobians records no
\* failure, whatever the error e at the assignment.
C2_AgreeingJacobiansPass ==
    (/\ ret.op = "test"
     /\ ret.active
     /\ ret.result.outcome = "returned"
     /\ ret.result.jf.keys = ret.result.expected.keys
     /\ \A i \in 1..Len(ret.result.jf.keys) :
           MatEqual(ret.result.jf.A[i], ret.result.expected.A[i], ret.tolerance))
    => ret.result.failures = 0

\* C3: the system the harness returns holds its blocks one per Key in the
\* order in which the factor declares its Keys.
C3_HarnessBlocksInDeclaredOrder ==
    ret.op = "harness" =>
        /\ ret.result.jf.keys = factor.keys_
        /\ Len(ret.result.jf.A) = Len(factor.keys_)

\* C4: the harness returns right-hand side -e and, for every Key, a block of
\* |e| rows and dim(Key) columns whose column c is the central difference of
\* the unwhitened error in coordinate c alone.
C4_HarnessSystem ==
    ret.op = "harness" =>
        LET jf == ret.result.jf
            e == unwhitenedError(factor, values, FALSE).error
        IN /\ jf.b = VecNeg(e)
           /\ Range(jf.keys) = Range(factor.keys_)
           /\ \A i \in 1..Len(jf.keys) :
                 /\ Len(jf.A[i]) = Len(values[jf.keys[i]])
                 /\ \A c \in 1..Len(jf.A[i]) :
                       /\ Len(jf.A[i][c]) = Len(e)
                       /\ jf.A[i][c] = CentralDifference(factor, values, jf.keys[i], c, ret.fd_step)
----------------------------------------------------------------------------
\* The factor.

\* C5: construction with no noise model, or with one whose dim() differs from
\* Dim, fails with invalid_argument, the missing model being reported first;
\* a factor that exists has a model of dimension Dim, so no later evaluation
\* can fail for it; on failure the expression and the dimension list are
\* unbound, and so is the key list of an ExpressionFactor.
C5_ConstructionFails ==
    /\ factor.state = "ready" =>
          /\ factor.noiseModel_ # NoModel
          /\ factor.noiseModel_.dim = factor.Dim
          /\ factor.thrown = "none"
    /\ factor.state = "failed" =>
          /\ factor.noiseModel_ = NoModel \/ factor.noiseModel_.dim # factor.Dim
          /\ factor.thrown = (IF factor.noiseModel_ = NoModel
                              THEN "invalid_argument: no NoiseModel"
                              ELSE "invalid_argument: incorrect dimension")
          /\ factor.expression_ = NoExpr
          /\ factor.dims_ = <<>>
          /\ factor.class = "ExpressionFactor" => factor.keys_ = <<>>

C5_Witness ==
    /\ factor.class = "ExpressionFactor"
    /\ factor.state = "failed"
    /\ factor.noiseModel_ # NoModel
    /\ factor.thrown = "invalid_argument: incorrect dimension"

\* C6: the key list of a factor is the one it was constructed with, after any
\* sequence of operations; an ExpressionFactor2 built with (key1, key2) keeps
\* [key1, key2].
C6_KeysFixedAtConstruction ==
    (factor.class = "ExpressionFactor2" /\ factor.state \in {"needinit", "ready"})
        => factor.keys_ = factor.ctorKeys

\* A complete linear system for the factor: one block per Key of keys_ with
\* dims_[i] columns and Dim rows, and a right-hand side of Dim rows.
Complete(gf) ==
    /\ ~gf.null
    /\ gf.keys = factor.keys_
    /\ Len(gf.A) = Len(factor.keys_)
    /\ \A i \in 1..Len(gf.A) :
          /\ Len(gf.A[i]) = factor.dims_[i]
          /\ Len(gf.A[i]) = Len(values[factor.keys_[i]])
          /\ \A c \in 1..Len(gf.A[i]) : Len(gf.A[i][c]) = factor.Dim
    /\ Len(gf.b) = factor.Dim

\* C7: linearize returns the null factor exactly when active(values) is
\* false, without evaluating the expression, and a complete linear system
\* whenever the factor is active.
C7_NullExactlyWhenInactive ==
    ret.op = "linearize" =>
        /\ ret.result.gf.null <=> ~ret.active
        /\ ~ret.active => ret.result.evals = 0
        /\ ret.active => Complete(ret.result.gf)

C7_Witness ==
    /\ ret.op = "linearize"
    /\ ~ret.active
    /\ ret.result.gf.null
    /\ Len(factor.keys_) = 2

\* The rows of column v scaled by the weights of the noise model.
Whitened(v) == [r \in 1..Len(v) |-> RowWeight(factor.noiseModel_, r) * v[r]]

Identity(n) == [c \in 1..n |-> [r \in 1..n |-> IF r = c THEN 1 ELSE 0]]

\* C8: for an active factor the right-hand side of linearize is the whitened
\* -local(measured, predicted) and its blocks are the whitened Jacobians of
\* the expression, key by key; with a unit model the right-hand side is -e as
\* in the harness, and for h(x) = x it is one identity block with
\* right-hand side z - x.
C8_LinearizedSystem ==
    (ret.op = "linearize" /\ ret.active) =>
        LET gf == ret.result.gf
            predicted == ExprValue(factor.expression_, values)
        IN /\ gf.b = Whitened(VecSub(factor.measured_, predicted))
           /\ \A i \in 1..Len(factor.keys_) :
                 gf.A[i] = [c \in 1..factor.dims_[i] |->
                              Whitened(ExprJacobian(factor.expression_, values,
                                                    factor.keys_[i], factor.dims_[i])[c])]
           /\ factor.noiseModel_.type = "Unit" =>
                 gf.b = VecNeg(unwhitenedError(factor, values, FALSE).error)
           /\ (factor.noiseModel_.type = "Unit" /\ factor.expression_.fn = "ident") =>
                 /\ gf.A = <<Identity(factor.Dim)>>
                 /\ gf.b = VecSub(factor.measured_, values[factor.keys_[1]])

C8_Witness ==
    /\ ret.op = "linearize"
    /\ ret.active
    /\ factor.noiseModel_.type = "Unit"
    /\ factor.expression_.fn = "ident"
    /\ factor.Dim = 2
    /\ ret.result.gf.b # ZeroVec(2)

\* C9: unwhitenedError returns local(measured, predicted), the same residual
\* with and without the derivative output, and H holds one Jacobian block per
\* Key of keys_ when it is requested.
C9_UnwhitenedError ==
    ret.op = "unwhitenedError" =>
        LET predicted == ExprValue(factor.expression_, values)
        IN /\ ret.result.error = VecSub(predicted, factor.measured_)
           /\ ret.result.error = unwhitenedError(factor, values, ~ret.wantH).error
           /\ ret.wantH =>
                 /\ Len(ret.result.H) = Len(factor.keys_)
                 /\ \A i \in 1..Len(factor.keys_) :
                       ret.result.H[i] = ExprJacobian(factor.expression_, values,
                                                      factor.keys_[i], factor.dims_[i])

C9_Witness ==
    /\ ret.op = "unwhitenedError"
    /\ ret.wantH
    /\ Len(factor.keys_) = 2
    /\ ret.result.error # ZeroVec(factor.Dim)

\* The matrix Ab of an active factor before whitening.
UnwhitenedAb ==
    Concat([i \in 1..Len(factor.keys_) |->
               ExprJacobian(factor.expression_, values, factor.keys_[i], factor.dims_[i])])
    \o <<VecNeg(Local(factor.measured_, ExprValue(factor.expression_, values)))>>

\* C10 as stated: under a constrained noise model linearize whitens blocks
\* and right-hand side with the unit weighting, not with the model's own.
C10_WhitenedWithUnit ==
    (ret.op = "linearize" /\ ret.active /\ isConstrained(factor.noiseModel_)) =>
        Concat(ret.result.gf.A) \o <<ret.result.gf.b>>
            = WhitenSystem(unit(factor.noiseModel_), UnwhitenedAb)

\* C10 amended: linearize always whitens blocks and right-hand side with the
\* factor's own noise model; under a constrained model the unit model is
\* attached to the returned system as its noise model, and no model is
\* attached otherwise.
C10_WhitenedWithOwnModel ==
    (ret.op = "linearize" /\ ret.active) =>
        /\ Concat(ret.result.gf.A) \o <<ret.result.gf.b>>
              = WhitenSystem(factor.noiseModel_, UnwhitenedAb)
        /\ ret.result.gf.model = (IF isConstrained(factor.noiseModel_)
                                  THEN unit(factor.noiseModel_) ELSE NoModel)

C10_Witness ==
    /\ ret.op = "linearize"
    /\ ret.active
    /\ isConstrained(factor.noiseModel_)
    /\ ret.result.gf.model = unit(factor.noiseModel_)
    /\ WhitenSystem(factor.noiseModel_, UnwhitenedAb)
          # WhitenSystem(unit(factor.noiseModel_), UnwhitenedAb)

-----------------------------------------------------------------------------
\* The finite-difference engine of numericalDerivative.h.  A function handle
\* (boost::function, function pointer, bind expression, functor) is a record;
\* Apply calls it on the sequence of its arguments.  A double is an integer
\* and a Vector or fixed-size Euclidean point a sequence of integers.

\* a / d; exact for the central differences of the polynomial functions below
Quot(a, d) == IF (a < 0) = (d < 0) THEN Abs(a) \div Abs(d) ELSE 0 - (Abs(a) \div Abs(d))

\* a * factor with factor = 1.0 / (2.0 * delta)
timesFactor(a, delta) == Quot(a, 2 * delta)

\* v * factor
vecTimesFactor(v, delta) == [i \in 1..Len(v) |-> timesFactor(v[i], delta)]

\* chartX.retract(x, d) of a Euclidean point
chartRetract(x, d) == VecAdd(x, d)

\* The argument _k of a bind expression and an argument bound to the value x.
placeholder(k) == [ph |-> k, val |-> <<>>]
bound(x) == [ph |-> 0, val |-> x]

\* boost::bind(h, slots...)
bind(h, slots) == [kind |-> "bind", h |-> h, slots |-> slots]

\* boost::bind(ng, f, _1, delta) with ng = numericalGradient<X>
bindGradient(f, delta) == [kind |-> "numericalGradient", f |-> f, delta |-> delta]

\* G_x1<X1, X2> g_x1(f, x1, delta)
G_x1(f, x1, delta) == [kind |-> "G_x1", f_ |-> f, x1_ |-> x1, delta_ |-> delta]

\* h(x) = A * x for the matrix A
Linear(A) == [kind |-> "linear", A |-> A]

RECURSIVE Apply(_, _)

\* numericalGradient without the reset d(j) = 0
numericalGradientRun_NoReset(h, x, delta) ==
    LET RECURSIVE loop(_, _)
        loop(j, st) ==
            IF j > Len(x) THEN st
            ELSE LET dplus == SetCoord(st.d, j, delta)
                     hxplus == Apply(h, <<chartRetract(x, dplus)>>)
                     dminus == SetCoord(dplus, j, 0 - delta)
                     hxmin == Apply(h, <<chartRetract(x, dminus)>>)
                     dzero == dminus
                 IN loop(j + 1,
                         [d |-> dzero,
                          g |-> SetCoord(st.g, j, timesFactor(hxplus - hxmin, delta)),
                          log |-> Append(st.log, [j |-> j, plus |-> dplus,
                                                  minus |-> dminus, after |-> dzero]),
                          calls |-> st.calls + 2])
    IN loop(1, [d |-> ZeroVec(Len(x)), g |-> ZeroVec(Len(x)), log |-> <<>>, calls |-> 0])

\* numericalGradient(h, x, delta) with its trace: the result g, the tangent
\* vector d at the end, per coordinate j the d of the two evaluations of h
\* and the d after the iteration, and the number of evaluations of h.
numericalGradientRun(h, x, delta) ==
    LET RECURSIVE loop(_, _)
        loop(j, st) ==
            IF j > Len(x) THEN st
            ELSE LET dplus == SetCoord(st.d, j, delta)
                     hxplus == Apply(h, <<chartRetract(x, dplus)>>)
                     dminus == SetCoord(dplus, j, 0 - delta)
                     hxmin == Apply(h, <<chartRetract(x, dminus)>>)
                     dzero == SetCoord(dminus, j, 0)
                 IN loop(j + 1,
                         [d |-> dzero,
                          g |-> SetCoord(st.g, j, timesFactor(hxplus - hxmin, delta)),
                          log |-> Append(st.log, [j |-> j, plus |-> dplus,
                                                  minus |-> dminus, after |-> dzero]),
                          calls |-> st.calls + 2])
    IN loop(1, [d |-> ZeroVec(Len(x)), g |-> ZeroVec(Len(x)), log |-> <<>>, calls |-> 0])

\* numericalGradient(h, x, delta)
numericalGradient(h, x, delta) == numericalGradientRun(h, x, delta).g

\* sum of the k-th powers of the coordinates of v
PowerSum(v, k) == SumVec([i \in 1..Len(v) |-> v[i] ^ k])

\* x1^T x2
Dot(a, b) == SumVec([i \in 1..Len(a) |-> a[i] * b[i]])

RECURSIVE FirstProduct(_)
\* the product of the first coordinates of the arguments
FirstProduct(args) ==
    IF args = <<>> THEN 1 ELSE Head(args)[1] * FirstProduct(Tail(args))

\* h(args...) for the function handle h
Apply(h, args) ==
    CASE h.kind = "squares" -> PowerSum(args[1], 2)
      [] h.kind = "cubes" -> PowerSum(args[1], 3)
      [] h.kind = "dot" -> Dot(args[1], args[2])
      [] h.kind = "dotcubes" -> Dot(args[1], args[2]) + PowerSum(args[1], 3) * PowerSum(args[2], 2)
      [] h.kind = "linear" ->
            [r \in 1..Len(h.A[1]) |-> SumVec([c \in 1..Len(h.A) |-> h.A[c][r] * args[1][c]])]
      [] h.kind = "cubed" -> [i \in 1..Len(args[1]) |-> args[1][i] ^ 3]
      [] h.kind = "mixed" ->
            <<FirstProduct(args),
              SumVec([k \in 1..Len(args) |-> k * PowerSum(args[k], 2)])>>
      [] h.kind = "bind" ->
            Apply(h.h, [i \in 1..Len(h.slots) |->
                           IF h.slots[i].ph = 0 THEN h.slots[i].val
                           ELSE args[h.slots[i].ph]])
      [] h.kind = "numericalGradient" -> numericalGradient(h.f, args[1], h.delta)
      [] h.kind = "G_x1" ->
            numericalGradient(bind(h.f_, <<placeholder(1), bound(args[1])>>),
                              h.x1_, h.delta_)

\* numericalDerivative11 with a one-sided difference
numericalDerivative11_OneSided(h, x, delta) ==
    LET hx == Apply(h, <<x>>)
        zeroY == Local(hx, hx)
        m == Len(zeroY)
        RECURSIVE loop(_, _)
        loop(j, st) ==
            IF j > Len(x) THEN st
            ELSE LET dxplus == SetCoord(st.dx, j, delta)
                     dy1 == Local(hx, Apply(h, <<chartRetract(x, dxplus)>>))
                     dxzero == SetCoord(dxplus, j, 0)
                     dy2 == Local(hx, Apply(h, <<chartRetract(x, dxzero)>>))
                 IN loop(j + 1,
                         [dx |-> dxzero,
                          H |-> SetCoord(st.H, j, vecTimesFactor(VecSub(dy1, dy2), delta))])
    IN loop(1, [dx |-> ZeroVec(Len(x)), H |-> ZeroMat(m, Len(x))]).H

\* numericalDerivative11(h, x, delta), h a function object
numericalDerivative11(h, x, delta) ==
    LET hx == Apply(h, <<x>>)
        zeroY == Local(hx, hx)
        m == Len(zeroY)
        RECURSIVE loop(_, _)
        loop(j, st) ==
            IF j > Len(x) THEN st
            ELSE LET dxplus == SetCoord(st.dx, j, delta)
                     dy1 == Local(hx, Apply(h, <<chartRetract(x, dxplus)>>))
                     dxminus == SetCoord(dxplus, j, 0 - delta)
                     dy2 == Local(hx, Apply(h, <<chartRetract(x, dxminus)>>))
                     dxzero == SetCoord(dxminus, j, 0)
                 IN loop(j + 1,
                         [dx |-> dxzero,
                          H |-> SetCoord(st.H, j, vecTimesFactor(VecSub(dy1, dy2), delta))])
    IN loop(1, [dx |-> ZeroVec(Len(x)), H |-> ZeroMat(m, Len(x))]).H

\* numericalHessian(f, x, delta)
numericalHessian(f, x, delta) ==
    numericalDerivative11(bindGradient(f, delta), x, delta)

\* numericalHessian212 that differentiates at x1
numericalHessian212_AtX1(f, x1, x2, delta) ==
    numericalDerivative11(bind(G_x1(f, x1, delta), <<placeholder(1)>>), x1, delta)

\* numericalHessian212(f, x1, x2, delta)
numericalHessian212(f, x1, x2, delta) ==
    numericalDerivative11(bind(G_x1(f, x1, delta), <<placeholder(1)>>), x2, delta)

\* numericalDerivative21 that perturbs the second argument
numericalDerivative21_WrongArgument(h, x1, x2, delta) ==
    numericalDerivative11(bind(h, <<bound(x1), placeholder(1)>>), x2, delta)

\* numericalDerivative21(h, x1, x2, delta), h a function object
numericalDerivative21(h, x1, x2, delta) ==
    numericalDerivative11(bind(h, <<placeholder(1), bound(x2)>>), x1, delta)

\* numericalDerivative21(h, x1, x2, delta), h a function pointer
numericalDerivative21p(h, x1, x2, delta) ==
    numericalDerivative21(bind(h, <<placeholder(1), placeholder(2)>>), x1, x2, delta)

\* numericalDerivative22(h, x1, x2, delta), h a function object
numericalDerivative22(h, x1, x2, delta) ==
    numericalDerivative11(bind(h, <<bound(x1), placeholder(1)>>), x2, delta)

\* numericalDerivative22(h, x1, x2, delta), h a function pointer
numericalDerivative22p(h, x1, x2, delta) ==
    numericalDerivative22(bind(h, <<placeholder(1), placeholder(2)>>), x1, x2, delta)

\* numericalDerivative31(h, x1, x2, x3, delta), h a function object
numericalDerivative31(h, x1, x2, x3, delta) ==
    numericalDerivative11(bind(h, <<placeholder(1), bound(x2), bound(x3)>>), x1, delta)

\* numericalDerivative31(h, x1, x2, x3, delta), h a function pointer
numericalDerivative31p(h, x1, x2, x3, delta) ==
    numericalDerivative31(bind(h, <<placeholder(1), placeholder(2), placeholder(3)>>),
                          x1, x2, x3, delta)

\* numericalDerivative32(h, x1, x2, x3, delta), h a function object
numericalDerivative32(h, x1, x2, x3, delta) ==
    numericalDerivative11(bind(h, <<bound(x1), placeholder(1), bound(x3)>>), x2, delta)

\* numericalDerivative32(h, x1, x2, x3, delta), h a function pointer
numericalDerivative32p(h, x1, x2, x3, delta) ==
    numericalDerivative32(bind(h, <<placeholder(1), placeholder(2), placeholder(3)>>),
                          x1, x2, x3, delta)

\* numericalDerivative33(h, x1, x2, x3, delta), h a function object
numericalDerivative33(h, x1, x2, x3, delta) ==
    numericalDerivative11(bind(h, <<bound(x1), bound(x2), placeholder(1)>>), x3, delta)

\* numericalDerivative33(h, x1, x2, x3, delta), h a function pointer
numericalDerivative33p(h, x1, x2, x3, delta) ==
    numericalDerivative33(bind(h, <<placeholder(1), placeholder(2), placeholder(3)>>),
                          x1, x2, x3, delta)

\* numericalDerivative<n><k>(h, x1..xn, delta); args is <<x1, .., xn>> and
\* pointer tells which overload is called.
numericalDerivativeNK(h, args, k, delta, pointer) ==
    CASE Len(args) = 2 /\ k = 1 /\ ~pointer -> numericalDerivative21(h, args[1], args[2], delta)
      [] Len(args) = 2 /\ k = 1 /\ pointer -> numericalDerivative21p(h, args[1], args[2], delta)
      [] Len(args) = 2 /\ k = 2 /\ ~pointer -> numericalDerivative22(h, args[1], args[2], delta)
      [] Len(args) = 2 /\ k = 2 /\ pointer -> numericalDerivative22p(h, args[1], args[2], delta)
      [] Len(args) = 3 /\ k = 1 /\ ~pointer -> numericalDerivative31(h, args[1], args[2], args[3], delta)
      [] Len(args) = 3 /\ k = 1 /\ pointer -> numericalDerivative31p(h, args[1], args[2], args[3], delta)
      [] Len(args) = 3 /\ k = 2 /\ ~pointer -> numericalDerivative32(h, args[1], args[2], args[3], delta)
      [] Len(args) = 3 /\ k = 2 /\ pointer -> numericalDerivative32p(h, args[1], args[2], args[3], delta)
      [] Len(args) = 3 /\ k = 3 /\ ~pointer -> numericalDerivative33(h, args[1], args[2], args[3], delta)
      [] Len(args) = 3 /\ k = 3 /\ pointer -> numericalDerivative33p(h, args[1], args[2], args[3], delta)

\* The inputs of the engine: points of dimension n, step sizes, matrices with
\* rows rows and cols columns, and function handles.
Points(n) == [1..n -> {0 - 1, MaxVal}]

Deltas == {0 - 1, 1, MaxStep}

Matrices(rows, cols) ==
    {[c \in 1..cols |-> [r \in 1..rows |-> a * r + b * c - MaxVal]] :
        a \in 0..MaxVal, b \in 0 - 1..MaxVal}

\* scalar functions of one argument of dimension n
ScalarFunctions(n) ==
    {[kind |-> "squares"], [kind |-> "cubes"]}
    \cup {bind([kind |-> "dot"], <<placeholder(1), bound(x2)>>) : x2 \in Points(n)}
    \cup {bind([kind |-> "dot"], <<bound(x1), placeholder(1)>>) : x1 \in Points(n)}

\* vector-valued functions of one argument of dimension n
VectorFunctions(n) ==
    {Linear(A) : A \in UNION {Matrices(m, n) : m \in 1..MaxDim}}
    \cup {[kind |-> "cubed"]}

\* the sequences of n arguments, every one of a dimension of its own
ArgumentLists(n) == [1..n -> UNION {Arguments(d) : d \in 1..MaxDim}]

\* the engine waits for a call
InitND ==
    /\ values = [k \in Keys |-> ZeroVec(1)]
    /\ factor = NoFactor
    /\ ret = [op |-> "idle"]

CallNumericalGradient ==
    /\ ret.op = "idle"
    /\ \E n \in 1..MaxDim :
          \E h \in ScalarFunctions(n), x \in Points(n), delta \in Deltas :
             ret' = [op |-> "numericalGradient", h |-> h, x |-> x, delta |-> delta,
                     result |-> numericalGradientRun(h, x, delta)]
    /\ UNCHANGED <<values, factor>>

CallNumericalDerivative11 ==
    /\ ret.op = "idle"
    /\ \E n \in 1..MaxDim :
          \E h \in VectorFunctions(n), x \in Points(n), delta \in Deltas :
             ret' = [op |-> "numericalDerivative11", h |-> h, x |-> x, delta |-> delta,
                     result |-> numericalDerivative11(h, x, delta)]
    /\ UNCHANGED <<values, factor>>

CallNumericalHessian ==
    /\ ret.op = "idle"
    /\ \E n \in 1..MaxDim :
          \E f \in {[kind |-> "squares"], [kind |-> "cubes"]},
             x \in Points(n), delta \in Deltas :
             ret' = [op |-> "numericalHessian", f |-> f, x |-> x, delta |-> delta,
                     result |-> numericalHessian(f, x, delta)]
    /\ UNCHANGED <<values, factor>>

CallNumericalHessian212 ==
    /\ ret.op = "idle"
    /\ \E n \in 1..MaxDim :
          \E f \in {[kind |-> "dot"], [kind |-> "dotcubes"]},
             x1 \in Points(n), x2 \in Points(n), delta \in Deltas :
             ret' = [op |-> "numericalHessian212", f |-> f, x1 |-> x1, x2 |-> x2,
                     delta |-> delta,
                     result |-> numericalHessian212(f, x1, x2, delta)]
    /\ UNCHANGED <<values, factor>>

CallNumericalDerivativeNK ==
    /\ ret.op = "idle"
    /\ \E n \in {2, 3} :
          \E args \in ArgumentLists(n), k \in 1..n, delta \in Deltas, pointer \in BOOLEAN :
             ret' = [op |-> "numericalDerivativeNK", h |-> [kind |-> "mixed"],
                     args |-> args, k |-> k, delta |-> delta, pointer |-> pointer,
                     result |-> numericalDerivativeNK([kind |-> "mixed"], args, k,
                                                     delta, pointer)]
    /\ UNCHANGED <<values, factor>>

\* the caller drops the result of the engine
ReturnND ==
    /\ ret.op # "idle"
    /\ ret' = [op |-> "idle"]
    /\ UNCHANGED <<values, factor>>

NextND ==
    \/ CallNumericalGradient
    \/ CallNumericalDerivative11
    \/ CallNumericalHessian
    \/ CallNumericalHessian212
    \/ CallNumericalDerivativeNK
    \/ ReturnND

SpecND == InitND /\ [][NextND]_vars
-----------------------------------------------------------------------------
\* The engine against the central-difference formulas, stated without the
\* division: a quotient q of a by 2 * delta is exact when q * 2 * delta = a.

\* s * e_j in dimension n
UnitVec(n, j, s) == [i \in 1..n |-> IF i = j THEN s ELSE 0]

\* args with its k-th element moved by s * e_j
Perturbed(args, k, j, s) ==
    [i \in 1..Len(args) |->
        IF i = k THEN VecAdd(args[i], UnitVec(Len(args[i]), j, s)) ELSE args[i]]

\* the central difference of the scalar f in coordinate j of its k-th argument
ScalarDifference(f, args, k, j, delta) ==
    Quot(Apply(f, Perturbed(args, k, j, delta)) - Apply(f, Perturbed(args, k, j, 0 - delta)),
         2 * delta)

\* the central differences of the scalar f in its k-th argument
ScalarDifferences(f, args, k, delta) ==
    [j \in 1..Len(args[k]) |-> ScalarDifference(f, args, k, j, delta)]

\* H is the matrix of columns (local(y0, yplus(j)) - local(y0, yminus(j))) / (2 * delta)
IsCentralDifference(H, n, y0, yplus(_), yminus(_), delta) ==
    /\ Len(H) = n
    /\ \A j \in 1..n :
          /\ Len(H[j]) = Len(y0)
          /\ \A i \in 1..Len(y0) :
                H[j][i] * 2 * delta = Local(y0, yplus(j))[i] - Local(y0, yminus(j))[i]

\* C12: numericalGradient returns a vector of length N with j-th component
\* (h(retract(x, +delta e_j)) - h(retract(x, -delta e_j))) / (2 delta); at
\* every evaluation of h the tangent vector is non-zero in coordinate j only,
\* it is zero again after each iteration, and h is evaluated exactly 2N times.
C12_NumericalGradient ==
    ret.op = "numericalGradient" =>
        LET N == Len(ret.x)
            r == ret.result
        IN /\ Len(r.g) = N
           /\ \A j \in 1..N :
                 r.g[j] * 2 * ret.delta =
                     Apply(ret.h, <<VecAdd(ret.x, UnitVec(N, j, ret.delta))>>)
                     - Apply(ret.h, <<VecAdd(ret.x, UnitVec(N, j, 0 - ret.delta))>>)
           /\ Len(r.log) = N
           /\ \A j \in 1..N :
                 /\ r.log[j].j = j
                 /\ r.log[j].plus = UnitVec(N, j, ret.delta)
                 /\ r.log[j].minus = UnitVec(N, j, 0 - ret.delta)
                 /\ r.log[j].after = ZeroVec(N)
           /\ r.d = ZeroVec(N)
           /\ r.calls = 2 * N

C12_Witness ==
    /\ ret.op = "numericalGradient"
    /\ Len(ret.x) = MaxDim
    /\ ret.h.kind = "cubes"
    /\ ret.delta = MaxStep
    /\ \A j \in 1..MaxDim : ret.result.g[j] > 3

\* C13: numericalDerivative11 returns an M x N matrix whose column j is
\* (local(y0, h(retract(x, +delta e_j))) - local(y0, h(retract(x, -delta e_j))))
\* / (2 delta) with y0 = h(x); for h(x) = A x it is A for every x and every
\* non-zero delta.
C13_NumericalDerivative11 ==
    ret.op = "numericalDerivative11" =>
        LET N == Len(ret.x)
            y0 == Apply(ret.h, <<ret.x>>)
            yplus(j) == Apply(ret.h, <<VecAdd(ret.x, UnitVec(N, j, ret.delta))>>)
            yminus(j) == Apply(ret.h, <<VecAdd(ret.x, UnitVec(N, j, 0 - ret.delta))>>)
        IN /\ IsCentralDifference(ret.result, N, y0, yplus, yminus, ret.delta)
           /\ ret.h.kind = "linear" => ret.result = ret.h.A

C13_Witness ==
    /\ ret.op = "numericalDerivative11"
    /\ ret.h.kind = "linear"
    /\ Len(ret.h.A) = MaxDim
    /\ Len(ret.h.A[1]) = 1
    /\ ret.h.A[1] # ret.h.A[MaxDim]
    /\ ret.delta < 0
    /\ ret.x # ZeroVec(MaxDim)
    /\ ret.result = ret.h.A

\* C14: numericalHessian is numericalDerivative11 of x -> numericalGradient(f,
\* x, delta) with the same delta, and numericalHessian212 is
\* numericalDerivative11 in x2 of x2 -> numericalGradient of f(., x2) at x1;
\* for f(x1, x2) = x1^T x2 the gradient in x1 is x2, the gradient in x2 is x1
\* and numericalHessian212 is the identity.
C14_Hessians ==
    /\ ret.op = "numericalHessian" =>
          LET N == Len(ret.x)
              grad(y) == ScalarDifferences(ret.f, <<y>>, 1, ret.delta)
              gplus(j) == grad(VecAdd(ret.x, UnitVec(N, j, ret.delta)))
              gminus(j) == grad(VecAdd(ret.x, UnitVec(N, j, 0 - ret.delta)))
          IN /\ ret.result = numericalDerivative11(bindGradient(ret.f, ret.delta),
                                                   ret.x, ret.delta)
             /\ IsCentralDifference(ret.result, N, grad(ret.x), gplus, gminus, ret.delta)
    /\ ret.op = "numericalHessian212" =>
          LET N == Len(ret.x2)
              grad(y) == ScalarDifferences(ret.f, <<ret.x1, y>>, 1, ret.delta)
              gplus(j) == grad(VecAdd(ret.x2, UnitVec(N, j, ret.delta)))
              gminus(j) == grad(VecAdd(ret.x2, UnitVec(N, j, 0 - ret.delta)))
          IN /\ IsCentralDifference(ret.result, N, grad(ret.x2), gplus, gminus, ret.delta)
             /\ ret.f.kind = "dot" => ret.result = Identity(N)
    /\ (ret.op = "numericalGradient" /\ ret.h.kind = "bind") =>
          /\ ret.h.slots[1].ph = 1 => ret.result.g = ret.h.slots[2].val
          /\ ret.h.slots[2].ph = 1 => ret.result.g = ret.h.slots[1].val

C14_Witness ==
    /\ ret.op = "numericalHessian212"
    /\ ret.f.kind = "dot"
    /\ Len(ret.x1) = MaxDim
    /\ ret.x1 # ret.x2
    /\ ret.result = Identity(MaxDim)

\* C15: for n in {2, 3} and k <= n, numericalDerivative<n><k> is
\* numericalDerivative11 of h with every argument but the k-th fixed to the
\* given values, at xk with the same delta; the other arguments are never
\* perturbed, and the function-pointer overload returns what the
\* function-object overload returns.
C15_CurriedDerivatives ==
    ret.op = "numericalDerivativeNK" =>
        LET n == Len(ret.args)
            xk == ret.args[ret.k]
            fixed == bind(ret.h, [i \in 1..n |-> IF i = ret.k THEN placeholder(1)
                                                 ELSE bound(ret.args[i])])
            yplus(j) == Apply(ret.h, Perturbed(ret.args, ret.k, j, ret.delta))
            yminus(j) == Apply(ret.h, Perturbed(ret.args, ret.k, j, 0 - ret.delta))
        IN /\ ret.result = numericalDerivative11(fixed, xk, ret.delta)
           /\ IsCentralDifference(ret.result, Len(xk), Apply(ret.h, ret.args),
                                  yplus, yminus, ret.delta)
           /\ ret.result = numericalDerivativeNK(ret.h, ret.args, ret.k, ret.delta,
                                                 ~ret.pointer)

C15_Witness ==
    /\ ret.op = "numericalDerivativeNK"
    /\ Len(ret.args) = 3
    /\ ret.k = 2
    /\ ret.pointer
    /\ Len(ret.args[1]) # Len(ret.args[2])
    /\ Len(ret.args[2]) = MaxDim
    /\ \A j \in 1..MaxDim : ret.result[j][2] # 0

C17_ReadsOnlyExistingResult ==
    ret.op = "test" => ~ret.result.jf.null
====
